---- MODULE Spec2Model ----
(***************************************************************************)
(* Model of the quantitative core of the financial risk prediction system: *)
(* SimpleDataCollector.get_historical_data, SimpleRiskCalculator,          *)
(* SimpleMonteCarlo and SimplePortfolioManager.                            *)
(*                                                                         *)
(* Numbers.  A float is modelled by an exact extended rational <<n, d>>:   *)
(* d > 0 is the finite value n/d (kept in lowest terms), <<1,0>> is +inf,  *)
(* <<-1,0>> is -inf and <<0,0>> is NaN, with IEEE rules for the non-finite *)
(* cases.  Rounding error of binary floating point is not modelled.        *)
(* A value that involves a square root of a non-square (a standard         *)
(* deviation) is a record [q, c, r] standing for q + c*sqrt(r).            *)
(***************************************************************************)
EXTENDS Integers, Sequences, FiniteSets, TLC

(***************************************************************************)
(* Bounds of the model.                                                    *)
(***************************************************************************)
MaxClose == 2
MaxBars == 3
MaxZeroBars == 2
MaxWeight == 2
MaxRootHorizon == 2
MaxPaths == 2
HalfLong == 10
MaxSeriesLen == 5
MaxAssets == 3

(***************************************************************************)
(* Extended rational arithmetic (numpy float64 semantics, exact).          *)
(***************************************************************************)
Abs(x) == IF x < 0 THEN -x ELSE x

Sign(x) == IF x < 0 THEN -1 ELSE IF x > 0 THEN 1 ELSE 0

RECURSIVE GCD(_, _)
GCD(a, b) == IF b = 0 THEN a ELSE GCD(b, a % b)

Norm(x) ==
    IF x[2] = 0 THEN <<Sign(x[1]), 0>>
    ELSE LET s == IF x[2] < 0 THEN -1 ELSE 1
             g == GCD(Abs(x[1]), Abs(x[2]))
         IN  <<(s * x[1]) \div g, (s * x[2]) \div g>>

Rat(n, d) == Norm(<<n, d>>)

Zero == <<0, 1>>
One == <<1, 1>>
NaN == <<0, 0>>
PosInf == <<1, 0>>
NegInf == <<-1, 0>>

IsNaN(x) == x = NaN
IsFinite(x) == x[2] # 0

RNeg(x) == <<-x[1], x[2]>>

RAdd(a, b) ==
    IF IsNaN(a) \/ IsNaN(b) THEN NaN
    ELSE IF ~IsFinite(a) THEN (IF ~IsFinite(b) /\ b # a THEN NaN ELSE a)
    ELSE IF ~IsFinite(b) THEN b
    ELSE LET g == GCD(a[2], b[2])
         IN  Norm(<<a[1] * (b[2] \div g) + b[1] * (a[2] \div g),
                    (a[2] \div g) * b[2]>>)

RSub(a, b) == RAdd(a, RNeg(b))

\* the product, cancelling across before multiplying
RMul(a, b) ==
    IF ~IsFinite(a) \/ ~IsFinite(b) THEN Norm(<<a[1] * b[1], 0>>)
    ELSE LET g == GCD(Abs(a[1]), b[2])
             h == GCD(Abs(b[1]), a[2])
         IN  Norm(<<(a[1] \div g) * (b[1] \div h), (a[2] \div h) * (b[2] \div g)>>)

RRecip(x) == IF x[1] < 0 THEN <<-x[2], -x[1]>> ELSE <<x[2], x[1]>>

\* numpy division: x/0 is +-inf, 0/0 is NaN, no exception
RDiv(a, b) == RMul(a, RRecip(b))

RLeq(a, b) ==
    /\ ~IsNaN(a)
    /\ ~IsNaN(b)
    /\ IF a[2] = 0 \/ b[2] = 0
       THEN a = b \/ a = NegInf \/ b = PosInf
       ELSE LET g == GCD(a[2], b[2])
            IN  a[1] * (b[2] \div g) <= b[1] * (a[2] \div g)
RLt(a, b) == RLeq(a, b) /\ a # b
RGeq(a, b) == RLeq(b, a)
RGt(a, b) == RLt(b, a)

RECURSIVE RSum(_)
RSum(s) == IF s = <<>> THEN Zero ELSE RAdd(Head(s), RSum(Tail(s)))

\* elementwise: array * scalar, array + array
Scale(s, k) == [j \in 1..Len(s) |-> RMul(s[j], k)]

\* variant: s[:n], the leading n elements
Leading(s, n) ==
    IF n = 0 \/ n >= Len(s) THEN s
    ELSE [j \in 1..n |-> s[j]]

\* s[-n:] : the trailing n elements; s[-0:] is the whole array
Trailing(s, n) ==
    IF n = 0 \/ n >= Len(s) THEN s
    ELSE [j \in 1..n |-> s[Len(s) - n + j]]

\* np.sort: ascending, NaN last
RECURSIVE Insert(_, _)
Insert(x, s) ==
    IF s = <<>> THEN <<x>>
    ELSE IF IsNaN(Head(s)) \/ (~IsNaN(x) /\ RLeq(x, Head(s))) THEN <<x>> \o s
    ELSE <<Head(s)>> \o Insert(x, Tail(s))

RECURSIVE Sorted(_)
Sorted(s) == IF s = <<>> THEN <<>> ELSE Insert(Head(s), Sorted(Tail(s)))

\* the non-NaN elements (pandas reductions skip NaN)
RECURSIVE DropNaN(_)
DropNaN(s) ==
    IF s = <<>> THEN <<>>
    ELSE IF IsNaN(Head(s)) THEN DropNaN(Tail(s))
    ELSE <<Head(s)>> \o DropNaN(Tail(s))

HasNaN(s) == \E j \in 1..Len(s) : IsNaN(s[j])

\* np.mean: sum / n, NaN for an empty array
NpMean(s) == RDiv(RSum(s), Rat(Len(s), 1))

\* pandas Series.mean: NaN skipped
PdMean(s) == NpMean(DropNaN(s))

\* sum of squared deviations from the mean
SqDev(s) == LET m == NpMean(s)
            IN  RSum([j \in 1..Len(s) |-> RMul(RSub(s[j], m), RSub(s[j], m))])

\* np.var (ddof = 0); np.std is its square root
NpVar(s) == RDiv(SqDev(s), Rat(Len(s), 1))

\* pandas Series.var (ddof = 1, NaN skipped): NaN for fewer than 2 values
PdVar(s) == LET t == DropNaN(s)
            IN  IF Len(t) < 2 THEN NaN ELSE RDiv(SqDev(t), Rat(Len(t) - 1, 1))

(***************************************************************************)
(* Values with a square root: [q, c, r] stands for q + c*sqrt(r), where r  *)
(* is a positive non-square rational, or c = r = 0 for a plain rational.   *)
(***************************************************************************)
\* the integer square root, by bisection
RECURSIVE Bisect(_, _, _)
Bisect(n, lo, hi) ==
    IF lo = hi THEN lo
    ELSE LET mid == (lo + hi + 1) \div 2
         IN  IF mid * mid <= n THEN Bisect(n, mid, hi) ELSE Bisect(n, lo, mid - 1)

Root(n) == Bisect(n, 0, IF n < 46340 THEN n ELSE 46340)

IsSquare(n) == Root(n) * Root(n) = n

Q(x) == [q |-> x, c |-> Zero, r |-> Zero]

RealNaN == Q(NaN)

\* q + c*sqrt(r) in normal form; r is NaN or a finite value >= 0
Real(q, c, r) ==
    IF IsNaN(q) \/ IsNaN(c) \/ IsNaN(r) THEN RealNaN
    ELSE IF IsSquare(r[1]) /\ IsSquare(r[2])
         THEN Q(RAdd(q, RMul(c, Rat(Root(r[1]), Root(r[2])))))
    ELSE IF c = Zero THEN Q(q)
    ELSE [q |-> q, c |-> c, r |-> r]

(***************************************************************************)
(* Inputs.  A weight k stands for k/2, a close price is a whole number, a  *)
(* time horizon is a perfect square so that sqrt(time_horizon) is exact,   *)
(* a confidence level is given in percent.                                 *)
(***************************************************************************)
Symbols == {"A", "B"}

\* the risk calculator and the simulator never compare identifiers; only the
\* optimizer keys a mapping by them, so only it is given a repeated symbol
SymbolLists == {<<>>, <<"A">>, <<"A", "B">>}

OptSymbolLists == SymbolLists \cup {<<"A", "A">>}

WeightValues == {Rat(k, 2) : k \in 0..MaxWeight}

WeightLists == UNION {[1..n -> WeightValues] : n \in 0..2}

ConfidenceLevels == {90, 95, 99}

\* num_simulations: a negative count, or 1..MaxPaths
SampleCounts == {-1} \cup 1..MaxPaths

\* the standard normal deviates a draw can take
Deviates == {-1, 1}

\* the deviates of a draw of n samples: every sequence for n <= MaxPaths
\* samples; for more samples, one that begins with any MaxPaths deviates and
\* goes on with a -1 at every third place
DrawSeqs(n) ==
    IF n <= MaxPaths THEN [1..(IF n < 0 THEN 0 ELSE n) -> Deviates]
    ELSE {[k \in 1..n |-> IF k <= MaxPaths THEN z[k]
                          ELSE IF k % 3 = 2 THEN -1 ELSE 1] :
              z \in [1..MaxPaths -> Deviates]}

Methods == {"equal_weight", "max_sharpe", "min_variance"}

\* current_weights: not supplied, or a list
CurrentWeightOptions ==
    {[given |-> FALSE, v |-> <<>>]}
        \cup {[given |-> TRUE, v |-> ws] :
                 ws \in {<<Zero, Zero>>, <<One, Zero>>}}

\* a frame of 2*HalfLong + 1 closes alternating between a and b: an even
\* number of returns, so that their standard deviation is rational
Alternating(a, b) == [j \in 1..(2 * HalfLong + 1) |-> IF j % 2 = 1 THEN a ELSE b]

\* the lookups of the optimizer: the download raises, or yields no bar, a
\* short frame or a long frame
OptOutcomes ==
    {[raises |-> TRUE, closes |-> <<>>]}
        \cup {[raises |-> FALSE, closes |-> cs] :
                 cs \in {<<>>, <<1, 2>>, Alternating(1, 2)}}

\* a frame of 2*HalfLong + 1 closes that halves at every second bar: the
\* returns alternate between -1/2 and 0
Halving == [j \in 1..(2 * HalfLong + 1) |-> 2 ^ (HalfLong - (j \div 2))]

\* a provider whose answer depends on the symbol only: "A" has a history
\* (a long one for the optimizer, which asks for a year), "B" two bars, "N" no
\* bar, the download of "X" raises, "F" has a long history at one price, "D"
\* a long falling one, "Z" a long one of zero closes
MarketSymbols == {"A", "B", "N", "X", "F", "D", "Z"}

ProviderOf(op, symbol) ==
    IF symbol = "X" THEN [raises |-> TRUE, closes |-> <<>>]
    ELSE [raises |-> FALSE,
          closes |-> CASE symbol = "B" -> <<1, 2>>
                       [] symbol = "N" -> <<>>
                       [] symbol = "F" -> Alternating(1, 1)
                       [] symbol = "D" -> Halving
                       [] symbol = "Z" -> Alternating(0, 0)
                       [] OTHER -> IF op = "opt" THEN Alternating(1, 2)
                                   ELSE <<1, 2, 1>>]

MarketOutcomes == {ProviderOf("opt", symbol) : symbol \in MarketSymbols}

MarketSymbolLists == UNION {[1..n -> MarketSymbols] : n \in 1..2}

TimeHorizons == {k * k : k \in 1..MaxRootHorizon}

\* frames of up to MaxBars closes; a zero close occurs only in frames of up to
\* MaxZeroBars closes
CloseSeqs == UNION {[1..n -> 0..MaxClose] : n \in 0..MaxZeroBars}
                 \cup UNION {[1..n -> 1..MaxClose] : n \in 1..MaxBars}

\* what the yfinance download does on one lookup: it raises, or it yields a
\* frame of daily closes in ascending date order (possibly empty)
YfOutcomes == {[raises |-> TRUE, closes |-> <<>>]}
                  \cup {[raises |-> FALSE, closes |-> cs] : cs \in CloseSeqs}

(***************************************************************************)
(* SimpleDataCollector.get_historical_data                                 *)
(***************************************************************************)
get_historical_data(y) ==
    IF y.raises \/ y.closes = <<>>
    THEN [data |-> <<>>, error |-> TRUE]
    ELSE [data |-> [j \in 1..Len(y.closes) |->
                       [date |-> j, close |-> Rat(y.closes[j], 1)]],
          error |-> FALSE]

\* df.sort_values('date'): ascending by date (insertion sort on the date)
RECURSIVE InsertBar(_, _)
InsertBar(b, s) ==
    IF s = <<>> THEN <<b>>
    ELSE IF b.date <= Head(s).date THEN <<b>> \o s
    ELSE <<Head(s)>> \o InsertBar(b, Tail(s))

RECURSIVE sort_values(_)
sort_values(data) ==
    IF data = <<>> THEN <<>> ELSE InsertBar(Head(data), sort_values(Tail(data)))

\* df['close'].values after the sort
ClosePrices(data) == LET df == sort_values(data)
                     IN  [j \in 1..Len(df) |-> df[j].close]

\* np.diff(prices) / prices[:-1]
DailyReturns(prices) ==
    [j \in 1..(Len(prices) - 1) |-> RDiv(RSub(prices[j + 1], prices[j]), prices[j])]

(***************************************************************************)
(* SimpleRiskCalculator: the metric functions                              *)
(***************************************************************************)
\* np.percentile(a, q), linear interpolation; NaN for an empty array
Percentile(a, q) ==
    IF a = <<>> \/ HasNaN(a) THEN NaN
    ELSE LET s == Sorted(a)
             n == Len(s)
             lo == (q * (n - 1)) \div 100
             g == Rat((q * (n - 1)) % 100, 100)
             x == s[lo + 1]
             y == s[IF lo + 2 <= n THEN lo + 2 ELSE n]
         IN  IF g = Zero THEN x ELSE RAdd(x, RMul(RSub(y, x), g))

\* variant: the percentile is taken at the confidence level itself instead
\* of at 1 - confidence_level
HistoricalVarNoComplement(returns, confidence_level, time_horizon) ==
    LET scaled_returns == Scale(returns, Rat(Root(time_horizon), 1))
        var == Percentile(scaled_returns, confidence_level)
    IN  RNeg(var)

_calculate_historical_var(returns, confidence_level, time_horizon) ==
    LET scaled_returns == Scale(returns, Rat(Root(time_horizon), 1))
        var == Percentile(scaled_returns, 100 - confidence_level)
    IN  RNeg(var)

\* scaled_returns[scaled_returns <= var_threshold]
RECURSIVE AtOrBelow(_, _)
AtOrBelow(s, t) ==
    IF s = <<>> THEN <<>>
    ELSE IF RLeq(Head(s), t) THEN <<Head(s)>> \o AtOrBelow(Tail(s), t)
    ELSE AtOrBelow(Tail(s), t)

\* lines 178-183: scaled_returns[scaled_returns <= var_threshold]; no value
\* is at or below a NaN threshold
TailLosses(returns, confidence_level, time_horizon) ==
    LET scaled_returns == Scale(returns, Rat(Root(time_horizon), 1))
    IN  AtOrBelow(scaled_returns,
                  Percentile(scaled_returns, 100 - confidence_level))

\* variant: the tail is taken on the wrong side of the threshold
ExpectedShortfallUpperTail(returns, confidence_level, time_horizon) ==
    LET scaled_returns == Scale(returns, Rat(Root(time_horizon), 1))
        var_threshold == Percentile(scaled_returns, 100 - confidence_level)
        tail_losses == SelectSeq(scaled_returns,
                                 LAMBDA x : RGeq(x, var_threshold))
    IN  IF Len(tail_losses) > 0 THEN RNeg(PdMean(tail_losses))
        ELSE RNeg(var_threshold)

_calculate_expected_shortfall(returns, confidence_level, time_horizon) ==
    LET scaled_returns == Scale(returns, Rat(Root(time_horizon), 1))
        var_threshold == Percentile(scaled_returns, 100 - confidence_level)
        tail_losses == TailLosses(returns, confidence_level, time_horizon)
    IN  IF Len(tail_losses) > 0 THEN RNeg(PdMean(tail_losses))
        ELSE RNeg(var_threshold)

\* stats.norm.ppf(1 - confidence_level), to three decimals
ZScore(confidence_level) ==
    CASE confidence_level = 50 -> Zero
      [] confidence_level = 90 -> Rat(-1282, 1000)
      [] confidence_level = 95 -> Rat(-1645, 1000)
      [] confidence_level = 99 -> Rat(-2326, 1000)

_calculate_parametric_var(returns, confidence_level, time_horizon) ==
    LET scaled_mean == RMul(PdMean(returns), Rat(time_horizon, 1))
        \* scaled_std = sqrt(variance) * sqrt(time_horizon)
        z_root == RMul(ZScore(confidence_level), Rat(Root(time_horizon), 1))
    IN  Real(RNeg(scaled_mean), RNeg(z_root), PdVar(returns))

\* returns.std() * sqrt(252) = sqrt(variance * 252)
_calculate_volatility(returns) ==
    Real(Zero, One, RMul(PdVar(returns), Rat(252, 1)))

\* (1 + returns).cumprod(): a NaN entry stays NaN and is skipped
RECURSIVE CumProd(_, _)
CumProd(s, acc) ==
    IF s = <<>> THEN <<>>
    ELSE IF IsNaN(Head(s)) THEN <<NaN>> \o CumProd(Tail(s), acc)
    ELSE LET a == RMul(acc, Head(s)) IN <<a>> \o CumProd(Tail(s), a)

RMax(a, b) == IF IsNaN(a) THEN b ELSE IF IsNaN(b) THEN a
              ELSE IF RLeq(a, b) THEN b ELSE a

RMin(a, b) == IF IsNaN(a) THEN b ELSE IF IsNaN(b) THEN a
              ELSE IF RLeq(a, b) THEN a ELSE b

\* cumulative.expanding().max(): the largest non-NaN value so far
RECURSIVE ExpandingMax(_, _)
ExpandingMax(s, acc) ==
    IF s = <<>> THEN <<>>
    ELSE LET m == RMax(acc, Head(s)) IN <<m>> \o ExpandingMax(Tail(s), m)

\* Series.min(): the least non-NaN value, NaN if there is none
RECURSIVE SeriesMin(_)
SeriesMin(s) == IF s = <<>> THEN NaN ELSE RMin(Head(s), SeriesMin(Tail(s)))

\* variant: the drawdown is the distance to the peak, not divided by the peak
MaxDrawdownAbsolute(returns) ==
    LET cumulative == CumProd([j \in 1..Len(returns) |-> RAdd(One, returns[j])], One)
        peak == ExpandingMax(cumulative, NaN)
        drawdown == [j \in 1..Len(returns) |-> RSub(cumulative[j], peak[j])]
    IN  SeriesMin(drawdown)

_calculate_max_drawdown(returns) ==
    LET cumulative == CumProd([j \in 1..Len(returns) |-> RAdd(One, returns[j])], One)
        peak == ExpandingMax(cumulative, NaN)
        drawdown == [j \in 1..Len(returns) |->
                        RDiv(RSub(cumulative[j], peak[j]), peak[j])]
    IN  SeriesMin(drawdown)

risk_free_rate == Rat(2, 100)

\* (mean*252 - risk_free_rate) / (std*sqrt(252)); 0.0 when the volatility is 0
_calculate_sharpe_ratio(returns) ==
    LET annual_return == RMul(PdMean(returns), Rat(252, 1))
        annual_var == RMul(PdVar(returns), Rat(252, 1))
    IN  IF annual_var = Zero THEN Q(Zero)
        ELSE Real(Zero, RSub(annual_return, risk_free_rate), RRecip(annual_var))

\* variant: the 99% default (0.08) is used for the main VaR fields
DefaultRiskMetricsSwapped(symbols, weights, confidence_level, time_horizon) ==
    [kind |-> "risk",
     var_95 |-> Rat(8, 100),
     var_99 |-> Rat(8, 100),
     historical_var |-> Rat(8, 100),
     parametric_var |-> Q(Rat(5, 100)),
     expected_shortfall |-> Rat(7, 100),
     volatility |-> Q(Rat(20, 100)),
     max_drawdown |-> Rat(-15, 100),
     sharpe_ratio |-> Q(Rat(5, 10)),
     confidence_level |-> confidence_level,
     time_horizon |-> time_horizon,
     weights |-> weights,
     data_points |-> 0,
     note |-> TRUE]

\* the fallback record of _get_default_risk_metrics
_get_default_risk_metrics(symbols, weights, confidence_level, time_horizon) ==
    [kind |-> "risk",
     var_95 |-> Rat(5, 100),
     var_99 |-> Rat(8, 100),
     historical_var |-> Rat(5, 100),
     parametric_var |-> Q(Rat(5, 100)),
     expected_shortfall |-> Rat(7, 100),
     volatility |-> Q(Rat(20, 100)),
     max_drawdown |-> Rat(-15, 100),
     sharpe_ratio |-> Q(Rat(5, 10)),
     confidence_level |-> confidence_level,
     time_horizon |-> time_horizon,
     weights |-> weights,
     data_points |-> 0,
     note |-> TRUE]

\* the record built from a non-empty portfolio return series
RiskMetrics(portfolio_returns, weights, confidence_level, time_horizon) ==
    LET var_historical ==
            _calculate_historical_var(portfolio_returns, confidence_level, time_horizon)
    IN  [kind |-> "risk",
         var_95 |-> var_historical,
         var_99 |-> _calculate_historical_var(portfolio_returns, 99, time_horizon),
         historical_var |-> var_historical,
         parametric_var |->
             _calculate_parametric_var(portfolio_returns, confidence_level, time_horizon),
         expected_shortfall |->
             _calculate_expected_shortfall(portfolio_returns, confidence_level, time_horizon),
         volatility |-> _calculate_volatility(portfolio_returns),
         max_drawdown |-> _calculate_max_drawdown(portfolio_returns),
         sharpe_ratio |-> _calculate_sharpe_ratio(portfolio_returns),
         confidence_level |-> confidence_level,
         time_horizon |-> time_horizon,
         weights |-> weights,
         data_points |-> Len(portfolio_returns),
         note |-> FALSE]

(***************************************************************************)
(* State.  One invocation of a core operation runs at a time; an action is *)
(* the code between two lookups of the data collector.                     *)
(*   pc                 position: "idle", a fetch loop, or "done"          *)
(*   call               the arguments of the invocation                    *)
(*   weights            the local `weights` (after normalisation)          *)
(*   i                  index of the symbol the fetch loop is at           *)
(*   returns_list       the weighted return series collected so far        *)
(*   applied            the weight each collected series was multiplied by *)
(*   portfolio_returns  the portfolio return series; ok = FALSE is None    *)
(*   params             the simulation parameters; ok = FALSE is None      *)
(*   opt                the locals of optimize_portfolio: the metrics      *)
(*                      round, the per-asset proxies, the two weight lists *)
(*                      and the metric records computed so far             *)
(*   result             the record returned to the caller                  *)
(*   outcome            "none", "returned", or "raised" (exception escaped)*)
(*   lookups            number of get_historical_data calls of the call    *)
(*   fetched            history, kept for the risk calculator and the      *)
(*                      simulator: per lookup, the number of bars the      *)
(*                      download yielded, or -1 if it raised               *)
(*   draws              history: the standard deviates behind the samples  *)
(*                      np.random.normal produced in this invocation       *)
(*   other              the local state of a second, suspended invocation  *)
(*                      on the same component instances                    *)
(***************************************************************************)
VARIABLES pc, call, weights, i, returns_list, applied, portfolio_returns,
          params, opt, result, outcome, lookups, fetched, draws, other

vars == <<pc, call, weights, i, returns_list, applied, portfolio_returns,
          params, opt, result, outcome, lookups, fetched, draws, other>>

NoCall == [op |-> "none", symbols |-> <<>>, weights |-> <<>>,
           confidence_level |-> 95, time_horizon |-> 1,
           num_simulations |-> 1, method |-> "equal_weight",
           current_weights |-> [given |-> FALSE, v |-> <<>>]]

NoSeries == [ok |-> FALSE, v |-> <<>>]

NoParams == [ok |-> FALSE, mean |-> Zero, var |-> Zero]

NoResult == [kind |-> "none"]

\* the local state of an invocation that has not started
IdleFrame ==
    [pc |-> "idle", call |-> NoCall, weights |-> <<>>, i |-> 0,
     returns_list |-> <<>>, applied |-> <<>>, portfolio_returns |-> NoSeries,
     params |-> NoParams,
     opt |-> [round |-> 0, proxies |-> <<>>, optimized_weights |-> <<>>,
              current_weights |-> <<>>, individual_returns |-> <<>>,
              individual_vol2 |-> <<>>, metrics |-> <<>>],
     result |-> NoResult, outcome |-> "none", lookups |-> 0, fetched |-> <<>>,
     draws |-> <<>>]

Init ==
    /\ pc = "idle"
    /\ call = NoCall
    /\ weights = <<>>
    /\ i = 0
    /\ returns_list = <<>>
    /\ applied = <<>>
    /\ portfolio_returns = NoSeries
    /\ params = NoParams
    /\ opt = [round |-> 0, proxies |-> <<>>, optimized_weights |-> <<>>,
              current_weights |-> <<>>, individual_returns |-> <<>>,
              individual_vol2 |-> <<>>, metrics |-> <<>>]
    /\ result = NoResult
    /\ outcome = "none"
    /\ lookups = 0
    /\ fetched = <<>>
    /\ draws = <<>>
    /\ other = IdleFrame

BarCount(y) == IF y.raises THEN -1 ELSE Len(y.closes)

\* abs(sum(weights) - 1.0) > 1e-6
Tolerance == Rat(1, 1000000)

NeedsNormalizing(ws) ==
    LET d == RSub(RSum(ws), One)
    IN  RGt(IF RLt(d, Zero) THEN RNeg(d) ELSE d, Tolerance)

\* [w / sum(weights) for w in weights]; Python float division
Normalized(ws) == LET s == RSum(ws) IN [j \in 1..Len(ws) |-> RDiv(ws[j], s)]

\* one pass of the fetch loop body shared by _get_portfolio_returns and
\* _calculate_portfolio_parameters: the weighted returns of one asset
WeightedReturns(data, w) == Scale(DailyReturns(ClosePrices(data)), w)

MinLength(rl) ==
    CHOOSE m \in {Len(rl[j]) : j \in 1..Len(rl)} :
        \A j \in 1..Len(rl) : m <= Len(rl[j])

\* portfolio_returns += returns[-min_length:] fails to broadcast when the
\* right-hand side is longer than a zero-length left-hand side, unless it
\* has exactly one element
BroadcastFails(rl) ==
    LET m == MinLength(rl)
    IN  \E j \in 1..Len(rl) : Len(Trailing(rl[j], m)) # m /\ Len(Trailing(rl[j], m)) # 1

RECURSIVE SumSeries(_, _)
SumSeries(rl, m) ==
    IF rl = <<>> THEN [j \in 1..m |-> Zero]
    ELSE LET rest == SumSeries(Tail(rl), m)
             t == Trailing(Head(rl), m)
         IN  [j \in 1..m |-> RAdd(rest[j], t[j])]

\* the tail of _get_portfolio_returns after the loop; ok = FALSE is None
AlignedSum(rl) ==
    IF rl = <<>> THEN NoSeries
    ELSE IF BroadcastFails(rl) THEN NoSeries
    ELSE [ok |-> TRUE, v |-> SumSeries(rl, MinLength(rl))]

(***************************************************************************)
(* SimpleRiskCalculator.calculate_portfolio_risk                           *)
(***************************************************************************)
\* variant: only a missing series (None) takes the defaults, an empty one
\* goes on to the metric functions
RiskResultNoneOnly(pr, symbols, ws, confidence_level, time_horizon) ==
    IF ~pr.ok
    THEN _get_default_risk_metrics(symbols, ws, confidence_level, time_horizon)
    ELSE RiskMetrics(pr.v, ws, confidence_level, time_horizon)

\* lines 53-96: the defaults for a missing or empty series, else the metrics
RiskResult(pr, symbols, ws, confidence_level, time_horizon) ==
    IF ~pr.ok \/ Len(pr.v) = 0
    THEN _get_default_risk_metrics(symbols, ws, confidence_level, time_horizon)
    ELSE RiskMetrics(pr.v, ws, confidence_level, time_horizon)

\* lines 43-48: the validation or the normalisation raises (ValueError for
\* different lengths, ZeroDivisionError for weights that sum to zero)
EntryRaises(symbols, ws) ==
    \/ Len(symbols) # Len(ws)
    \/ ws # <<>> /\ NeedsNormalizing(ws) /\ RSum(ws) = Zero

\* variant: the handler lets the exception go on to the caller
RiskExceptReraise(symbols, ws, confidence_level, time_horizon) ==
    [outcome |-> "raised", result |-> NoResult]

\* lines 98-100: the handler returns the defaults
RiskExcept(symbols, ws, confidence_level, time_horizon) ==
    [outcome |-> "returned",
     result |-> _get_default_risk_metrics(symbols, ws, confidence_level, time_horizon)]

\* entry: validation and normalisation; an exception raised here is caught
\* by the handler of calculate_portfolio_risk, which returns the defaults.
\* With no symbol the loop body never runs and the call completes at once.
calculate_portfolio_risk(symbols, ws, confidence_level, time_horizon) ==
    /\ pc = "idle"
    /\ call' = [NoCall EXCEPT !.op = "risk", !.symbols = symbols, !.weights = ws,
                              !.confidence_level = confidence_level,
                              !.time_horizon = time_horizon]
    /\ lookups' = 0
    /\ fetched' = <<>>
    /\ draws' = <<>>
    /\ UNCHANGED other
    /\ returns_list' = <<>>
    /\ applied' = <<>>
    /\ portfolio_returns' = NoSeries
    /\ params' = NoParams
    /\ UNCHANGED opt
    /\ IF EntryRaises(symbols, ws)
       THEN /\ weights' = ws
            /\ i' = 0
            /\ result' = RiskExcept(symbols, ws, confidence_level, time_horizon).result
            /\ outcome' = RiskExcept(symbols, ws, confidence_level, time_horizon).outcome
            /\ pc' = "done"
       ELSE LET w == IF NeedsNormalizing(ws) THEN Normalized(ws) ELSE ws
            IN  /\ weights' = w
                /\ IF symbols = <<>>
                   THEN /\ i' = 0
                        /\ result' = RiskResult(NoSeries, symbols, w,
                                                confidence_level, time_horizon)
                        /\ outcome' = "returned"
                        /\ pc' = "done"
                   ELSE /\ i' = 1
                        /\ result' = NoResult
                        /\ outcome' = "none"
                        /\ pc' = "risk_fetch"

\* one iteration of the loop of _get_portfolio_returns; after the last one
\* the series are aligned and the result is built
RiskFetch(y) ==
    /\ pc = "risk_fetch"
    /\ LET data == get_historical_data(y).data
           rl == IF data = <<>> THEN returns_list
                 ELSE Append(returns_list, WeightedReturns(data, weights[i]))
       IN  /\ returns_list' = rl
           /\ applied' = IF data = <<>> THEN applied ELSE Append(applied, weights[i])
           /\ IF i < Len(call.symbols)
              THEN /\ i' = i + 1
                   /\ UNCHANGED <<pc, portfolio_returns, result, outcome>>
              ELSE /\ i' = i
                   /\ portfolio_returns' = AlignedSum(rl)
                   /\ result' = RiskResult(AlignedSum(rl), call.symbols, weights,
                                    call.confidence_level, call.time_horizon)
                   /\ outcome' = "returned"
                   /\ pc' = "done"
    /\ lookups' = lookups + 1
    /\ fetched' = Append(fetched, BarCount(y))
    /\ UNCHANGED <<draws, other>>
    /\ UNCHANGED <<call, weights, params, opt>>

(***************************************************************************)
(* SimpleMonteCarlo.run_simulation                                         *)
(***************************************************************************)
\* the tail of _calculate_portfolio_parameters: None, or the mean and the
\* variance (np.std squared) of the aligned sum
EstimateParams(rl) ==
    LET pr == AlignedSum(rl)
    IN  IF ~pr.ok THEN NoParams
        ELSE [ok |-> TRUE, mean |-> NpMean(pr.v), var |-> NpVar(pr.v)]

\* {'mean': 0.0008, 'std': 0.02}
DefaultParams == [ok |-> TRUE, mean |-> Rat(8, 10000), var |-> Rat(4, 10000)]

\* np.random.normal(scaled_mean, scaled_std, n): sample k is
\* scaled_mean + z[k] * std * sqrt(time_horizon) for a standard deviate z[k]
_simulate_portfolio_returns(p, z, time_horizon) ==
    LET scaled_mean == RMul(p.mean, Rat(time_horizon, 1))
        scaled_std == Rat(Root(time_horizon), 1)
        sample == [d \in Deviates |->
                      Real(scaled_mean, RMul(Rat(d, 1), scaled_std), p.var)]
    IN  [k \in 1..Len(z) |-> sample[z[k]]]

\* a + b * x for a value x with a square root
Affine(a, b, x) ==
    LET q == RAdd(a, RMul(b, x.q))
        c == RMul(b, x.c)
    IN  IF IsNaN(q) \/ IsNaN(c) THEN RealNaN
        ELSE IF c = Zero THEN Q(q)
        ELSE [q |-> q, c |-> c, r |-> x.r]

\* simulated_returns < 0 for a sample q + c*sqrt(r); NaN is not negative
Negative(x) ==
    IF x.c = Zero \/ ~IsFinite(x.q) THEN RLt(x.q, Zero)
    ELSE LET q2 == RMul(x.q, x.q)
             c2r == RMul(RMul(x.c, x.c), x.r)
         IN  IF RLt(x.q, Zero) THEN RLt(x.c, Zero) \/ RGt(q2, c2r)
             ELSE RLt(x.c, Zero) /\ RGt(c2r, q2)

\* np.sum(simulated_returns < 0)
CountNegative(samples) == Cardinality({k \in 1..Len(samples) : Negative(samples[k])})

\* variant: the last n entries are kept
TakeLast(s, n) ==
    [k \in 1..(IF Len(s) < n THEN Len(s) ELSE n) |->
        s[k + (IF Len(s) < n THEN 0 ELSE Len(s) - n)]]

\* tolist()[:n]
Take(s, n) == [k \in 1..(IF Len(s) < n THEN Len(s) ELSE n) |-> s[k]]

RetainLimit == 1000

\* the record run_simulation returns from its main path
SimulationResult(samples, num_simulations, time_horizon, initial_portfolio_value) ==
    LET final_values == [k \in 1..Len(samples) |->
            Affine(initial_portfolio_value, initial_portfolio_value, samples[k])]
    IN  [kind |-> "mc",
         portfolio_returns |-> Take(samples, RetainLimit),
         final_values |-> Take(final_values, RetainLimit),
         probability_of_loss |-> Rat(CountNegative(samples), num_simulations),
         num_simulations |-> num_simulations,
         time_horizon |-> time_horizon,
         note |-> FALSE]

InitialPortfolioValue == Rat(100000, 1)

\* a simulation of one asset that draws one sample more than the result retains
LargeSimulations ==
    [symbols : {<<"A">>}, weights : {<<One>>, <<Rat(1, 2)>>},
     num_simulations : {RetainLimit + 1}, time_horizon : TimeHorizons]

\* entry: no validation of the arguments
run_simulation(symbols, ws, num_simulations, time_horizon) ==
    /\ pc = "idle"
    /\ call' = [NoCall EXCEPT !.op = "mc", !.symbols = symbols, !.weights = ws,
                              !.num_simulations = num_simulations,
                              !.time_horizon = time_horizon]
    /\ weights' = ws
    /\ lookups' = 0
    /\ fetched' = <<>>
    /\ draws' = <<>>
    /\ UNCHANGED other
    /\ returns_list' = <<>>
    /\ applied' = <<>>
    /\ portfolio_returns' = NoSeries
    /\ params' = NoParams
    /\ UNCHANGED opt
    /\ result' = NoResult
    /\ outcome' = "none"
    /\ IF symbols = <<>>
       THEN i' = 0 /\ pc' = "mc_sim"
       ELSE i' = 1 /\ pc' = "mc_fetch"

\* one iteration of the loop of _calculate_portfolio_parameters; weights[i]
\* raises IndexError when the weights are too few, which makes the function
\* return None; after the last iteration the parameters are estimated
McFetch(y) ==
    /\ pc = "mc_fetch"
    /\ LET data == get_historical_data(y).data
           fails == data # <<>> /\ i > Len(weights)
           rl == IF data = <<>> \/ fails THEN returns_list
                 ELSE Append(returns_list, WeightedReturns(data, weights[i]))
       IN  /\ returns_list' = rl
           /\ applied' = IF data = <<>> \/ fails THEN applied
                         ELSE Append(applied, weights[i])
           /\ IF fails
              THEN /\ i' = i
                   /\ params' = NoParams
                   /\ portfolio_returns' = NoSeries
                   /\ pc' = "mc_sim"
              ELSE IF i < Len(call.symbols)
              THEN /\ i' = i + 1
                   /\ UNCHANGED <<pc, params, portfolio_returns>>
              ELSE /\ i' = i
                   /\ params' = EstimateParams(rl)
                   /\ portfolio_returns' = AlignedSum(rl)
                   /\ pc' = "mc_sim"
    /\ lookups' = lookups + 1
    /\ fetched' = Append(fetched, BarCount(y))
    /\ UNCHANGED <<draws, other>>
    /\ UNCHANGED <<call, weights, opt, result, outcome>>

\* lines 31-96: default parameters for None, the draws, the result record.
\* A negative sample count makes np.random.normal raise ValueError; the
\* handler's _get_default_simulation_results draws with the same count and
\* raises again, so the exception reaches the caller.
McSimulate(z) ==
    /\ pc = "mc_sim"
    /\ IF call.num_simulations < 0
       THEN /\ z = <<>>
            /\ result' = NoResult
            /\ outcome' = "raised"
       ELSE /\ Len(z) = call.num_simulations
            /\ LET p == IF params.ok THEN params ELSE DefaultParams
               IN  result' = SimulationResult(
                                 _simulate_portfolio_returns(p, z, call.time_horizon),
                                 call.num_simulations, call.time_horizon,
                                 InitialPortfolioValue)
            /\ outcome' = "returned"
    /\ draws' = z
    /\ pc' = "done"
    /\ UNCHANGED <<call, weights, i, returns_list, applied, portfolio_returns,
                   params, opt, lookups, fetched, other>>

(***************************************************************************)
(* SimplePortfolioManager.optimize_portfolio                               *)
(***************************************************************************)
MinBars == 20
MinReturns == 10

\* returns[np.isfinite(returns)]
RECURSIVE FiniteOnly(_)
FiniteOnly(s) ==
    IF s = <<>> THEN <<>>
    ELSE IF IsFinite(Head(s)) THEN <<Head(s)>> \o FiniteOnly(Tail(s))
    ELSE FiniteOnly(Tail(s))

\* the usable returns of one lookup: ok = FALSE when the frame has at most
\* MinBars bars or at most MinReturns finite returns
UsableReturns(data) ==
    IF Len(data) > MinBars
    THEN LET returns == FiniteOnly(DailyReturns(ClosePrices(data)))
         IN  [ok |-> Len(returns) > MinReturns, v |-> returns]
    ELSE [ok |-> FALSE, v |-> <<>>]

\* UsableReturns of what get_historical_data makes of each lookup outcome
UsableOf == [y \in OptOutcomes \cup MarketOutcomes |-> UsableReturns(get_historical_data(y).data)]

\* lines 205-228: the annual return of one asset and the square of its
\* annual volatility, or the fallbacks 0.08 and 0.20
AnnualReturnOf == [y \in OptOutcomes \cup MarketOutcomes |->
    IF UsableOf[y].ok THEN RMul(NpMean(UsableOf[y].v), Rat(252, 1)) ELSE Rat(8, 100)]

AnnualVol2Of == [y \in OptOutcomes \cup MarketOutcomes |->
    IF UsableOf[y].ok THEN RMul(NpVar(UsableOf[y].v), Rat(252, 1)) ELSE Rat(4, 100)]

\* np.std of a series whose variance is the square of a rational
NpStd(s) == LET v == NpVar(s) IN Rat(Root(v[1]), Root(v[2]))

_equal_weight_optimization(symbols) ==
    [j \in 1..Len(symbols) |-> Rat(1, Len(symbols))]

\* lines 81-103: the Sharpe proxy of one asset
SharpeProxy(u) ==
    IF u.ok /\ RGt(NpStd(u.v), Zero) THEN RDiv(NpMean(u.v), NpStd(u.v))
    ELSE Zero

\* variant: an asset without usable data gets the volatility 0
AssetVolatilityZeroDefault(u) == IF u.ok THEN NpStd(u.v) ELSE Zero

\* lines 142-158: the volatility of one asset
AssetVolatility(u) == IF u.ok THEN NpStd(u.v) ELSE Rat(2, 100)

RECURSIVE SeqMin(_)
SeqMin(s) == IF Len(s) = 1 THEN s[1] ELSE RMin(s[1], SeqMin(Tail(s)))

RAbs(x) == IF RLt(x, Zero) THEN RNeg(x) ELSE x

\* max(a, b) of Python: a unless b is greater
PyMax(a, b) == IF RGt(b, a) THEN b ELSE a

\* variant: the proxies are used as they are, without the shift of the
\* negative ones and without the floor 0.01
MaxSharpeWeightsRaw(sharpe_ratios) ==
    LET n == Len(sharpe_ratios)
        total_sharpe == RSum(sharpe_ratios)
    IN  IF RGt(total_sharpe, Zero)
        THEN [j \in 1..n |-> RDiv(sharpe_ratios[j], total_sharpe)]
        ELSE [j \in 1..n |-> Rat(1, n)]

\* variant: the negative proxies are shifted, but nothing is raised to the
\* floor 0.01
MaxSharpeWeightsNoFloor(sharpe_ratios) ==
    LET n == Len(sharpe_ratios)
        adjusted_sharpes == [j \in 1..n |->
            IF RLt(sharpe_ratios[j], Zero)
            THEN RAdd(RAdd(sharpe_ratios[j], RAbs(SeqMin(sharpe_ratios))), Rat(1, 10))
            ELSE sharpe_ratios[j]]
        total_sharpe == RSum(adjusted_sharpes)
    IN  IF RGt(total_sharpe, Zero)
        THEN [j \in 1..n |-> RDiv(adjusted_sharpes[j], total_sharpe)]
        ELSE [j \in 1..n |-> Rat(1, n)]

\* lines 112-124: the weights from the Sharpe proxies
MaxSharpeWeights(sharpe_ratios) ==
    LET n == Len(sharpe_ratios)
        adjusted_sharpes == [j \in 1..n |->
            IF RLt(sharpe_ratios[j], Zero)
            THEN PyMax(Rat(1, 100),
                       RAdd(RAdd(sharpe_ratios[j], RAbs(SeqMin(sharpe_ratios))),
                            Rat(1, 10)))
            ELSE PyMax(Rat(1, 100), sharpe_ratios[j])]
        total_sharpe == RSum(adjusted_sharpes)
    IN  IF RGt(total_sharpe, Zero)
        THEN [j \in 1..n |-> RDiv(adjusted_sharpes[j], total_sharpe)]
        ELSE [j \in 1..n |-> Rat(1, n)]

\* variant: the weights are proportional to the floored volatilities
MinVarianceWeightsProportional(volatilities) ==
    LET n == Len(volatilities)
        vol == [j \in 1..n |-> PyMax(Rat(1, 1000), volatilities[j])]
    IN  [j \in 1..n |-> RDiv(vol[j], RSum(vol))]

\* lines 167-170: inverse volatility weighting
MinVarianceWeights(volatilities) ==
    LET n == Len(volatilities)
        inv_vol == [j \in 1..n |-> RDiv(One, PyMax(Rat(1, 1000), volatilities[j]))]
        total_inv_vol == RSum(inv_vol)
    IN  [j \in 1..n |-> RDiv(inv_vol[j], total_inv_vol)]

\* {symbol: weight for symbol, weight in zip(symbols, weights)}: a repeated
\* symbol keeps the weight of its last occurrence
WeightsDict(symbols, ws) ==
    [sym \in {symbols[j] : j \in 1..Len(symbols)} |->
        ws[CHOOSE j \in 1..Len(symbols) :
              /\ symbols[j] = sym
              /\ \A k \in (j + 1)..Len(symbols) : symbols[k] # sym]]

\* line 43-44
CurrentWeights(symbols, cw) ==
    IF ~cw.given \/ cw.v = <<>> \/ Len(cw.v) # Len(symbols)
    THEN [j \in 1..Len(symbols) |-> Rat(1, Len(symbols))]
    ELSE cw.v

\* np.average(x, weights = w)
WeightedAverage(x, w) ==
    RDiv(RSum([j \in 1..Len(x) |-> RMul(x[j], w[j])]), RSum(w))

FallbackMetrics ==
    [expected_return |-> Rat(8, 100), volatility |-> Q(Rat(18, 100)),
     sharpe_ratio |-> Q(Rat(33, 100))]

\* lines 230-270 of _calculate_simple_metrics; the volatilities of the
\* assets are carried as their squares
SimpleMetrics(portfolio_returns_list, individual_returns, individual_vol2, ws) ==
    IF portfolio_returns_list # <<>>
    THEN LET series == SumSeries(portfolio_returns_list,
                                 MinLength(portfolio_returns_list))
             expected_return == RMul(NpMean(series), Rat(252, 1))
             vol2 == RMul(NpVar(series), Rat(252, 1))
         IN  [expected_return |-> expected_return,
              volatility |-> Real(Zero, One, vol2),
              sharpe_ratio |->
                  IF RGt(vol2, Zero)
                  THEN Real(Zero, RSub(expected_return, risk_free_rate), RRecip(vol2))
                  ELSE Q(Zero)]
    ELSE IF RSum(ws) = Zero
    THEN FallbackMetrics    \* np.average raises ZeroDivisionError
    ELSE LET expected_return == WeightedAverage(individual_returns, ws)
             vol2 == WeightedAverage(individual_vol2, ws)
         IN  [expected_return |-> expected_return,
              volatility |-> Real(Zero, One, vol2),
              sharpe_ratio |->
                  IF RGt(vol2, Zero)
                  THEN Real(Zero, RSub(expected_return, risk_free_rate), RRecip(vol2))
                  ELSE Q(Zero)]

\* np.argmax / np.argmin: the first index of the greatest / least value
ArgMax(ws) == CHOOSE j \in 1..Len(ws) :
                 /\ \A k \in 1..Len(ws) : RLeq(ws[k], ws[j])
                 /\ \A k \in 1..(j - 1) : ws[k] # ws[j]

ArgMin(ws) == CHOOSE j \in 1..Len(ws) :
                 /\ \A k \in 1..Len(ws) : RLeq(ws[j], ws[k])
                 /\ \A k \in 1..(j - 1) : ws[k] # ws[j]

\* _generate_simple_recommendations; the performance improvement is the
\* field-wise difference optimized - current of the two metric records
_generate_simple_recommendations(symbols, optimized, current, perf_cur, perf_opt) ==
    [top_increase |-> symbols[ArgMax(optimized)],
     reduce |-> IF Len(symbols) > 1 THEN <<symbols[ArgMin(optimized)]>> ELSE <<>>,
     weight_changes |-> [j \in 1..Len(symbols) |->
         LET change == RMul(RSub(optimized[j], current[j]), Rat(100, 1))
         IN  [symbol |-> symbols[j],
              current_weight |-> RMul(current[j], Rat(100, 1)),
              recommended_weight |-> RMul(optimized[j], Rat(100, 1)),
              change |-> change,
              action |-> IF RGt(change, Rat(1, 10)) THEN "increase"
                         ELSE IF RLt(change, Rat(-1, 10)) THEN "decrease"
                         ELSE "hold"]],
     performance_improvement |-> [optimized |-> perf_opt, current |-> perf_cur]]

NoOpt == [round |-> 0, proxies |-> <<>>, optimized_weights |-> <<>>,
          current_weights |-> <<>>, individual_returns |-> <<>>,
          individual_vol2 |-> <<>>, metrics |-> <<>>]

\* the weights a metrics round works with: rounds 1 and 4 the optimized
\* weights, rounds 2 and 3 the current ones (lines 47-48 and 325-326)
RoundWeights(o, r) == IF r \in {1, 4} THEN o.optimized_weights ELSE o.current_weights

\* the main path (lines 26-58) raises exactly when there is no symbol: every
\* method, or line 44 after it, divides by len(symbols)
OptimizationFails(symbols) == symbols = <<>>

\* lines 347-370: the record of the handler; line 351 divides by len(symbols)
_get_default_optimization(symbols) ==
    [kind |-> "opt",
     optimized_weights |-> WeightsDict(symbols, _equal_weight_optimization(symbols)),
     portfolio_metrics |->
         [expected_return |-> Rat(8, 100), volatility |-> Q(Rat(15, 100)),
          sharpe_ratio |-> Q(Rat(4, 10))],
     current_portfolio_metrics |->
         [expected_return |-> Rat(8, 100), volatility |-> Q(Rat(15, 100)),
          sharpe_ratio |-> Q(Rat(4, 10))],
     method |-> "equal_weight",
     symbols |-> symbols,
     note |-> TRUE]

\* entry.  With no symbol every path divides by len(symbols) = 0, and so does
\* _get_default_optimization in the handler: ZeroDivisionError reaches the
\* caller.
optimize_portfolio(symbols, method, cw) ==
    /\ pc = "idle"
    /\ call' = [NoCall EXCEPT !.op = "opt", !.symbols = symbols, !.method = method,
                              !.current_weights = cw]
    /\ weights' = <<>>
    /\ lookups' = 0
    /\ fetched' = <<>>
    /\ draws' = <<>>
    /\ UNCHANGED other
    /\ returns_list' = <<>>
    /\ applied' = <<>>
    /\ portfolio_returns' = NoSeries
    /\ params' = NoParams
    /\ result' = NoResult
    /\ i' = IF symbols = <<>> THEN 0 ELSE 1
    /\ IF OptimizationFails(symbols)
       THEN /\ opt' = NoOpt
            /\ outcome' = "raised"
            /\ pc' = "done"
       ELSE IF method \in {"max_sharpe", "min_variance"}
       THEN /\ opt' = NoOpt
            /\ outcome' = "none"
            /\ pc' = "opt_weights"
       ELSE /\ opt' = [NoOpt EXCEPT !.round = 1,
                          !.optimized_weights = _equal_weight_optimization(symbols),
                          !.current_weights = CurrentWeights(symbols, cw)]
            /\ outcome' = "none"
            /\ pc' = "opt_metrics"

\* one iteration of the loop of _simple_max_sharpe or _simple_min_variance;
\* after the last one the weights are computed
OptWeightFetch(y) ==
    /\ pc = "opt_weights"
    /\ LET data == get_historical_data(y).data
           p == IF call.method = "max_sharpe" THEN SharpeProxy(UsableOf[y])
                ELSE AssetVolatility(UsableOf[y])
           ps == Append(opt.proxies, p)
       IN  IF i < Len(call.symbols)
           THEN /\ opt' = [opt EXCEPT !.proxies = ps]
                /\ i' = i + 1
                /\ pc' = pc
           ELSE /\ opt' = [opt EXCEPT !.proxies = ps, !.round = 1,
                              !.optimized_weights =
                                  IF call.method = "max_sharpe"
                                  THEN MaxSharpeWeights(ps)
                                  ELSE MinVarianceWeights(ps),
                              !.current_weights =
                                  CurrentWeights(call.symbols, call.current_weights)]
                /\ i' = 1
                /\ pc' = "opt_metrics"
    /\ lookups' = lookups + 1
    /\ UNCHANGED <<call, weights, returns_list, applied, portfolio_returns, params,
                   result, outcome, fetched, draws, other>>

\* the record optimize_portfolio returns from its main path
OptimizationResult(symbols, method, o, m) ==
    [kind |-> "opt",
     optimized_weights |-> WeightsDict(symbols, o.optimized_weights),
     portfolio_metrics |-> m[1],
     current_portfolio_metrics |-> m[2],
     method |-> method,
     symbols |-> symbols,
     recommendations |->
         _generate_simple_recommendations(symbols, o.optimized_weights,
                                          o.current_weights, m[3], m[4]),
     note |-> FALSE]

\* one iteration of the loop of _calculate_simple_metrics; after the last
\* one the round's metrics are computed, after the fourth round the result
OptMetricsFetch(y) ==
    /\ pc = "opt_metrics"
    /\ LET u == UsableOf[y]
           ws == RoundWeights(opt, opt.round)
           rl == IF u.ok THEN Append(returns_list, Scale(u.v, ws[i]))
                 ELSE returns_list
           ir == Append(opt.individual_returns, AnnualReturnOf[y])
           iv == Append(opt.individual_vol2, AnnualVol2Of[y])
           m == Append(opt.metrics, SimpleMetrics(rl, ir, iv, ws))
       IN  IF i < Len(call.symbols)
           THEN /\ returns_list' = rl
                /\ opt' = [opt EXCEPT !.individual_returns = ir, !.individual_vol2 = iv]
                /\ i' = i + 1
                /\ UNCHANGED <<pc, result, outcome>>
           ELSE /\ returns_list' = <<>>
                /\ i' = 1
                /\ IF opt.round < 4
                   THEN /\ opt' = [opt EXCEPT !.individual_returns = <<>>,
                                      !.individual_vol2 = <<>>,
                                      !.metrics = m, !.round = opt.round + 1]
                        /\ UNCHANGED <<pc, result, outcome>>
                   ELSE /\ opt' = [opt EXCEPT !.individual_returns = <<>>,
                                      !.individual_vol2 = <<>>, !.metrics = m]
                        /\ result' = OptimizationResult(call.symbols, call.method,
                                                        opt, m)
                        /\ outcome' = "returned"
                        /\ pc' = "done"
    /\ lookups' = lookups + 1
    /\ UNCHANGED <<call, weights, applied, portfolio_returns, params, fetched, draws,
                   other>>

\* the caller takes the result; the component is ready for the next call
Return ==
    /\ pc = "done"
    /\ pc' = "idle"
    /\ call' = NoCall
    /\ weights' = <<>>
    /\ i' = 0
    /\ returns_list' = <<>>
    /\ applied' = <<>>
    /\ portfolio_returns' = NoSeries
    /\ params' = NoParams
    /\ opt' = NoOpt
    /\ result' = NoResult
    /\ outcome' = "none"
    /\ lookups' = 0
    /\ fetched' = <<>>
    /\ draws' = <<>>
    /\ UNCHANGED other

(***************************************************************************)
(* The metric functions on their own: Init draws a finite return series,   *)
(* the action applies lines 58-96 of calculate_portfolio_risk to it.       *)
(***************************************************************************)
ReturnGrid == {Rat(k, 2) : k \in -1..1}

ShortSeries == UNION {[1..n -> ReturnGrid] : n \in 1..MaxSeriesLen}

\* every short series, and every longest one followed twice by its tail
MetricSeries ==
    ShortSeries \cup {s \o Tail(s) \o Tail(s) : s \in [1..MaxSeriesLen -> ReturnGrid]}

MetricConfidenceLevels == ConfidenceLevels \cup {50}

MetricsInit ==
    /\ pc = "metrics"
    /\ call = NoCall
    /\ weights = <<>>
    /\ i = 0
    /\ returns_list = <<>>
    /\ applied = <<>>
    /\ portfolio_returns \in {[ok |-> TRUE, v |-> s] : s \in MetricSeries}
    /\ params = NoParams
    /\ opt = NoOpt
    /\ result = NoResult
    /\ outcome = "none"
    /\ lookups = 0
    /\ fetched = <<>>
    /\ draws = <<>>
    /\ other = IdleFrame

CalculateMetrics(confidence_level, time_horizon) ==
    /\ pc = "metrics"
    /\ call' = [NoCall EXCEPT !.op = "risk", !.confidence_level = confidence_level,
                              !.time_horizon = time_horizon]
    /\ result' = RiskMetrics(portfolio_returns.v, weights, confidence_level,
                             time_horizon)
    /\ outcome' = "returned"
    /\ pc' = "metrics_done"
    /\ UNCHANGED <<weights, i, returns_list, applied, portfolio_returns, params, opt,
                   lookups, fetched, draws, other>>

MetricsNext ==
    \E cl \in MetricConfidenceLevels, th \in TimeHorizons : CalculateMetrics(cl, th)

MetricsSpec == MetricsInit /\ [][MetricsNext]_vars

(***************************************************************************)
(* The weighting policy as a function of the per-asset proxies: the        *)
(* initial states hold a list of Sharpe proxies, the action applies lines  *)
(* 112-124 of _simple_max_sharpe to it.                                    *)
(***************************************************************************)
ProxyGrid == {Rat(-1, 1), Rat(-1, 2), Zero, Rat(1, 200), One}

ProxyLists == UNION {[1..n -> ProxyGrid] : n \in 1..MaxAssets}

PolicyInit ==
    /\ pc = "policy"
    /\ call = NoCall
    /\ weights = <<>>
    /\ i = 0
    /\ returns_list = <<>>
    /\ applied = <<>>
    /\ portfolio_returns = NoSeries
    /\ params = NoParams
    /\ opt \in {[NoOpt EXCEPT !.proxies = ps] : ps \in ProxyLists}
    /\ result = NoResult
    /\ outcome = "none"
    /\ lookups = 0
    /\ fetched = <<>>
    /\ draws = <<>>
    /\ other = IdleFrame

ApplyMaxSharpe ==
    /\ pc = "policy"
    /\ call' = [NoCall EXCEPT !.op = "opt", !.method = "max_sharpe"]
    /\ opt' = [opt EXCEPT !.optimized_weights = MaxSharpeWeights(opt.proxies)]
    /\ pc' = "policy_done"
    /\ UNCHANGED <<weights, i, returns_list, applied, portfolio_returns, params,
                   result, outcome, lookups, fetched, draws, other>>

PolicyNext == ApplyMaxSharpe

PolicySpec == PolicyInit /\ [][PolicyNext]_vars

Next ==
    \/ \E symbols \in SymbolLists, ws \in WeightLists,
          cl \in ConfidenceLevels, th \in TimeHorizons :
          calculate_portfolio_risk(symbols, ws, cl, th)
    \/ \E y \in YfOutcomes : RiskFetch(y)
    \/ \E symbols \in SymbolLists, ws \in WeightLists,
          n \in SampleCounts, th \in TimeHorizons :
          run_simulation(symbols, ws, n, th)
    \/ \E c \in LargeSimulations :
          run_simulation(c.symbols, c.weights, c.num_simulations, c.time_horizon)
    \/ \E y \in YfOutcomes : McFetch(y)
    \/ \E z \in DrawSeqs(call.num_simulations) : McSimulate(z)
    \/ \E symbols \in OptSymbolLists, method \in Methods, cw \in CurrentWeightOptions :
          optimize_portfolio(symbols, method, cw)
    \/ \E y \in OptOutcomes : OptWeightFetch(y)
    \/ \E y \in OptOutcomes : OptMetricsFetch(y)
    \/ Return

Spec == Init /\ [][Next]_vars

(***************************************************************************)
(* Two invocations on the shared component instances.  The server handles  *)
(* requests in threads; the components are module-level instances without  *)
(* mutable attributes, so all working data of an invocation are locals of  *)
(* its methods.  The variables above are the locals of the running         *)
(* invocation, other those of the suspended one.                           *)
(***************************************************************************)
Frame ==
    [pc |-> pc, call |-> call, weights |-> weights, i |-> i,
     returns_list |-> returns_list, applied |-> applied,
     portfolio_returns |-> portfolio_returns, params |-> params, opt |-> opt,
     result |-> result, outcome |-> outcome, lookups |-> lookups,
     fetched |-> fetched, draws |-> draws]

\* variant: returns_list is an attribute of the component, shared by the
\* invocations, instead of a local
RestoreSharedList(f) ==
    /\ pc' = f.pc
    /\ call' = f.call
    /\ weights' = f.weights
    /\ i' = f.i
    /\ UNCHANGED returns_list
    /\ applied' = f.applied
    /\ portfolio_returns' = f.portfolio_returns
    /\ params' = f.params
    /\ opt' = f.opt
    /\ result' = f.result
    /\ outcome' = f.outcome
    /\ lookups' = f.lookups
    /\ fetched' = f.fetched
    /\ draws' = f.draws

\* the suspended invocation goes on with its own locals
Restore(f) ==
    /\ pc' = f.pc
    /\ call' = f.call
    /\ weights' = f.weights
    /\ i' = f.i
    /\ returns_list' = f.returns_list
    /\ applied' = f.applied
    /\ portfolio_returns' = f.portfolio_returns
    /\ params' = f.params
    /\ opt' = f.opt
    /\ result' = f.result
    /\ outcome' = f.outcome
    /\ lookups' = f.lookups
    /\ fetched' = f.fetched
    /\ draws' = f.draws

\* the scheduler suspends the running invocation and resumes the other
Switch ==
    /\ other' = Frame
    /\ Restore(other)

ConcurrentSymbolLists == {<<"A">>, <<"A", "B">>, <<"B", "A">>}

ConcurrentWeightLists == {<<One>>, <<Rat(1, 2), One>>}

ConcurrentNext ==
    \/ \E symbols \in ConcurrentSymbolLists, ws \in ConcurrentWeightLists :
          calculate_portfolio_risk(symbols, ws, 95, 1)
    \/ pc = "risk_fetch" /\ RiskFetch(ProviderOf("risk", call.symbols[i]))
    \/ \E symbols \in ConcurrentSymbolLists, ws \in ConcurrentWeightLists :
          run_simulation(symbols, ws, 1, 1)
    \/ pc = "mc_fetch" /\ McFetch(ProviderOf("mc", call.symbols[i]))
    \/ \E z \in DrawSeqs(call.num_simulations) : McSimulate(z)
    \/ \E symbols \in ConcurrentSymbolLists, method \in Methods :
          optimize_portfolio(symbols, method, [given |-> FALSE, v |-> <<>>])
    \/ pc = "opt_weights" /\ OptWeightFetch(ProviderOf("opt", call.symbols[i]))
    \/ pc = "opt_metrics" /\ OptMetricsFetch(ProviderOf("opt", call.symbols[i]))
    \/ Return
    \/ Switch

ConcurrentSpec == Init /\ [][ConcurrentNext]_vars

(***************************************************************************)
(* optimize_portfolio, one invocation at a time, on the provider whose     *)
(* answer depends on the symbol only; current_weights is not supplied.     *)
(***************************************************************************)
OptimizerNext ==
    \/ \E symbols \in MarketSymbolLists, method \in Methods :
          optimize_portfolio(symbols, method, [given |-> FALSE, v |-> <<>>])
    \/ pc = "opt_weights" /\ OptWeightFetch(ProviderOf("opt", call.symbols[i]))
    \/ pc = "opt_metrics" /\ OptMetricsFetch(ProviderOf("opt", call.symbols[i]))
    \/ Return

OptimizerSpec == Init /\ [][OptimizerNext]_vars

(***************************************************************************)
(* Properties                                                              *)
(***************************************************************************)
RiskDone == pc = "done" /\ call.op = "risk"

FallbackTuple(r) ==
    /\ r.historical_var = Rat(5, 100)
    /\ r.parametric_var = Q(Rat(5, 100))
    /\ r.expected_shortfall = Rat(7, 100)
    /\ r.volatility = Q(Rat(20, 100))
    /\ r.max_drawdown = Rat(-15, 100)
    /\ r.sharpe_ratio = Q(Rat(5, 10))

\* C1: when every lookup of a risk calculation yields no bar, the call
\* returns exactly the fallback metrics 0.05, 0.05, 0.07, 0.20, -0.15, 0.5,
\* whatever the weights (of matching length), the confidence level and the
\* time horizon.
C1_EmptyDataFallback ==
    (/\ RiskDone
     /\ Len(call.weights) = Len(call.symbols)
     /\ \A k \in 1..Len(fetched) : fetched[k] = 0)
        => outcome = "returned" /\ FallbackTuple(result)

C1_Witness ==
    /\ RiskDone
    /\ fetched = <<0, 0>>
    /\ NeedsNormalizing(call.weights)
    /\ call.confidence_level = 99
    /\ call.time_horizon = 4
    /\ FallbackTuple(result)

\* C2: a risk calculation whose symbols and weights differ in length, or
\* whose weights sum to zero, raises to the caller instead of returning a
\* metrics record.
C2_RejectsContractViolations ==
    (/\ RiskDone
     /\ \/ Len(call.symbols) # Len(call.weights)
        \/ call.weights # <<>> /\ RSum(call.weights) = Zero)
        => outcome = "raised"

\* C3: with at least one symbol, weights of matching length and at least one
\* path, each of the three operations returns a result record, whatever the
\* lookups do; no exception reaches the caller.
C3_NeverRaises ==
    (/\ pc = "done"
     /\ call.symbols # <<>>
     /\ call.op \in {"risk", "mc"} => Len(call.weights) = Len(call.symbols)
     /\ call.op = "mc" => call.num_simulations >= 1)
        => outcome = "returned" /\ result.kind = call.op

C3_Witness ==
    /\ RiskDone
    /\ Len(call.symbols) = 2
    /\ Len(call.weights) = 2
    /\ RSum(call.weights) = Zero
    /\ outcome = "returned"
    /\ result.kind = "risk"

\* C4: for weights whose sum is neither 0 nor within 1e-6 of 1, the weights
\* multiplied into the series that make up the portfolio return series of a
\* risk calculation or of a simulation sum to 1.
C4_AppliedWeightsSumToOne ==
    (/\ pc \in {"done", "mc_sim"}
     /\ call.op \in {"risk", "mc"}
     /\ portfolio_returns.ok
     /\ RSum(call.weights) # Zero
     /\ NeedsNormalizing(call.weights))
        => RSum(applied) = One

C7_LossesNonNegative ==
    (RiskDone /\ outcome = "returned")
        => /\ RGeq(result.historical_var, Zero)
           /\ RGeq(result.expected_shortfall, Zero)

RECURSIVE DictSum(_, _)
DictSum(f, keys) ==
    IF keys = {} THEN Zero
    ELSE LET k == CHOOSE x \in keys : TRUE
         IN  RAdd(f[k], DictSum(f, keys \ {k}))

\* C8: for N >= 1 symbols the equal_weight method returns a mapping that
\* gives 1/N to every symbol and whose values sum to 1.
C8_EqualWeightMapping ==
    (/\ pc = "done"
     /\ call.op = "opt"
     /\ call.method = "equal_weight"
     /\ call.symbols # <<>>)
        => /\ outcome = "returned"
           /\ \A j \in 1..Len(call.symbols) :
                 result.optimized_weights[call.symbols[j]] = Rat(1, Len(call.symbols))
           /\ DictSum(result.optimized_weights, DOMAIN result.optimized_weights) = One

RealIsNaN(x) == IsNaN(x.q)

\* C9: when every lookup of a risk calculation yields no bar or a single bar,
\* the call returns volatility, Sharpe ratio and max drawdown all 0 or all at
\* their fallbacks 0.20, 0.5, -0.15, and no metric is NaN.
C9_DegenerateSeriesSafe ==
    (/\ RiskDone
     /\ \A k \in 1..Len(fetched) : fetched[k] \in {0, 1})
        => /\ outcome = "returned"
           /\ \/ /\ result.volatility = Q(Zero)
                 /\ result.sharpe_ratio = Q(Zero)
                 /\ result.max_drawdown = Zero
              \/ /\ result.volatility = Q(Rat(20, 100))
                 /\ result.sharpe_ratio = Q(Rat(5, 10))
                 /\ result.max_drawdown = Rat(-15, 100)
           /\ ~IsNaN(result.historical_var)
           /\ ~RealIsNaN(result.parametric_var)
           /\ ~IsNaN(result.expected_shortfall)
           /\ ~RealIsNaN(result.volatility)
           /\ ~IsNaN(result.max_drawdown)
           /\ ~RealIsNaN(result.sharpe_ratio)

C9_Witness ==
    /\ RiskDone
    /\ Len(fetched) = 2
    /\ \A k \in 1..2 : fetched[k] \in {0, 1}
    /\ \E k \in 1..2 : fetched[k] = 1
    /\ portfolio_returns.ok
    /\ result.note

\* the position in returns_list of the series of lookup k
SeriesPosition(k) == Cardinality({j \in 1..k : fetched[j] >= 1})

Without(s, p) == SubSeq(s, 1, p - 1) \o SubSeq(s, p + 1, Len(s))

\* C10: a lookup that yields fewer than 10 returns changes the result of a
\* risk calculation no more than a lookup that yields no data: the result is
\* the one the call gives without that asset's series.
C10_TooLittleLikeNoData ==
    (RiskDone /\ lookups = Len(call.symbols))
        => \A k \in 1..Len(fetched) :
              (fetched[k] >= 1 /\ fetched[k] - 1 < MinReturns)
                  => result = RiskResult(
                                  AlignedSum(Without(returns_list, SeriesPosition(k))),
                                  call.symbols, weights,
                                  call.confidence_level, call.time_horizon)

McDone == pc = "done" /\ call.op = "mc"

\* the full sample of the invocation, from the parameters in force and the
\* deviates drawn
FullSample ==
    _simulate_portfolio_returns(IF params.ok THEN params ELSE DefaultParams,
                                draws, call.time_horizon)

\* C11: for num_paths >= 1 the portfolio_returns and final_values of a
\* simulation result have length min(num_paths, 1000), are the first entries
\* of the full sample in draw order, final_values[k] is
\* initial_value * (1 + portfolio_returns[k]), and probability_of_loss is the
\* number of negative samples among all num_paths, divided by num_paths.
C11_RetainedSamples ==
    (McDone /\ call.num_simulations >= 1)
        => LET n == call.num_simulations
               m == IF n < 1000 THEN n ELSE 1000
           IN  /\ outcome = "returned"
               /\ Len(FullSample) = n
               /\ Len(result.portfolio_returns) = m
               /\ Len(result.final_values) = m
               /\ \A k \in 1..m :
                     /\ result.portfolio_returns[k] = FullSample[k]
                     /\ result.final_values[k] =
                            Affine(InitialPortfolioValue, InitialPortfolioValue,
                                   result.portfolio_returns[k])
               /\ result.probability_of_loss =
                      Rat(Cardinality({k \in 1..n : Negative(FullSample[k])}), n)

C11_Witness ==
    /\ McDone
    /\ call.num_simulations = 1001
    /\ params.ok
    /\ Len(result.portfolio_returns) = 1000
    /\ Negative(FullSample[1001])
    /\ ~Negative(FullSample[1000])
    /\ FullSample[1] # FullSample[2]

\* the weighted return series of the assets with data, in symbol order
WeightedSeries(resp, w) ==
    LET F[k \in 0..Len(resp)] ==
            IF k = 0 THEN <<>>
            ELSE LET data == get_historical_data(resp[k]).data
                 IN  IF data = <<>> THEN F[k - 1]
                     ELSE Append(F[k - 1], WeightedReturns(data, w[k]))
    IN  F[Len(resp)]

Responses(c) == [k \in 1..Len(c.symbols) |-> ProviderOf(c.op, c.symbols[k])]

\* what calculate_portfolio_risk answers when it runs alone
RiskAlone(c) ==
    IF EntryRaises(c.symbols, c.weights)
    THEN RiskExcept(c.symbols, c.weights, c.confidence_level, c.time_horizon)
    ELSE LET w == IF NeedsNormalizing(c.weights) THEN Normalized(c.weights)
                  ELSE c.weights
         IN  [outcome |-> "returned",
              result |-> RiskResult(AlignedSum(WeightedSeries(Responses(c), w)),
                                    c.symbols, w, c.confidence_level,
                                    c.time_horizon)]

\* what run_simulation answers when it runs alone and draws z
McAlone(c, z) ==
    LET resp == Responses(c)
        fails == \E k \in 1..Len(resp) :
                    /\ get_historical_data(resp[k]).data # <<>>
                    /\ k > Len(c.weights)
        estimated == IF fails THEN NoParams
                     ELSE EstimateParams(WeightedSeries(resp, c.weights))
        p == IF estimated.ok THEN estimated ELSE DefaultParams
    IN  IF c.num_simulations < 0
        THEN [outcome |-> "raised", result |-> NoResult]
        ELSE [outcome |-> "returned",
              result |-> SimulationResult(
                             _simulate_portfolio_returns(p, z, c.time_horizon),
                             c.num_simulations, c.time_horizon,
                             InitialPortfolioValue)]

\* what optimize_portfolio answers when it runs alone
OptAlone(c) ==
    LET resp == Responses(c)
        n == Len(c.symbols)
        proxies == [k \in 1..n |->
                       IF c.method = "max_sharpe" THEN SharpeProxy(UsableOf[resp[k]])
                       ELSE AssetVolatility(UsableOf[resp[k]])]
        optimized == IF c.method = "max_sharpe" THEN MaxSharpeWeights(proxies)
                     ELSE IF c.method = "min_variance"
                     THEN MinVarianceWeights(proxies)
                     ELSE _equal_weight_optimization(c.symbols)
        current == CurrentWeights(c.symbols, c.current_weights)
        Series(ws) ==
            LET F[k \in 0..n] ==
                    IF k = 0 THEN <<>>
                    ELSE IF UsableOf[resp[k]].ok
                    THEN Append(F[k - 1], Scale(UsableOf[resp[k]].v, ws[k]))
                    ELSE F[k - 1]
            IN  F[n]
        Metrics(ws) ==
            SimpleMetrics(Series(ws), [k \in 1..n |-> AnnualReturnOf[resp[k]]],
                          [k \in 1..n |-> AnnualVol2Of[resp[k]]], ws)
    IN  IF n = 0 THEN [outcome |-> "raised", result |-> NoResult]
        ELSE [outcome |-> "returned",
              result |-> OptimizationResult(
                             c.symbols, c.method,
                             [optimized_weights |-> optimized,
                              current_weights |-> current],
                             <<Metrics(optimized), Metrics(current),
                               Metrics(current), Metrics(optimized)>>)]

Alone(f) ==
    IF f.call.op = "risk" THEN RiskAlone(f.call)
    ELSE IF f.call.op = "mc" THEN McAlone(f.call, f.draws)
    ELSE OptAlone(f.call)

C13_OneLookupPerAsset ==
    (pc = "done" /\ outcome = "returned") => lookups = Len(call.symbols)

\* fallback values or default parameters went into the numbers of the result
\* of a risk calculation or of a simulation
DefaultsUsed ==
    IF call.op = "risk" THEN ~portfolio_returns.ok \/ portfolio_returns.v = <<>>
    ELSE ~params.ok

\* C14: the result of a risk calculation or of a simulation carries the
\* provenance note if and only if fallback values or default parameters were
\* used for its numbers.
C14_NoteIffDefaults ==
    (pc = "done" /\ outcome = "returned" /\ call.op \in {"risk", "mc"})
        => (result.note <=> DefaultsUsed)

\* the lookups of a risk calculation or of a parameter estimation are over
\* and none failed on a missing weight
SeriesBuilt ==
    \/ RiskDone /\ lookups = Len(call.symbols)
    \/ /\ call.op = "mc"
       /\ pc \in {"mc_sim", "done"}
       /\ Len(call.weights) >= Len(call.symbols)

\* C15: when every weighted series has at least one element and L is the
\* least of their lengths, the portfolio return series has length L and its
\* j-th element is the sum over the series of the j-th of their trailing L
\* elements.
C15_TrailingAlignment ==
    (/\ SeriesBuilt
     /\ returns_list # <<>>
     /\ \A k \in 1..Len(returns_list) : Len(returns_list[k]) >= 1)
        => LET L == CHOOSE n \in {Len(returns_list[k]) : k \in 1..Len(returns_list)} :
                        \A k \in 1..Len(returns_list) : n <= Len(returns_list[k])
           IN  /\ portfolio_returns.ok
               /\ Len(portfolio_returns.v) = L
               /\ \A j \in 1..L :
                     portfolio_returns.v[j] =
                         RSum([k \in 1..Len(returns_list) |->
                                  returns_list[k][Len(returns_list[k]) - L + j]])

C15_Witness ==
    /\ SeriesBuilt
    /\ Len(returns_list) = 2
    /\ Len(returns_list[1]) = 2
    /\ Len(returns_list[2]) = 1
    /\ returns_list[1][1] # returns_list[1][2]
    /\ IsFinite(returns_list[1][1])
    /\ portfolio_returns.v = <<RAdd(returns_list[1][2], returns_list[2][1])>>

\* the least length among the non-empty weighted series
LeastNonEmpty ==
    CHOOSE n \in {Len(returns_list[k]) : k \in 1..Len(returns_list)} \ {0} :
        \A k \in 1..Len(returns_list) :
            Len(returns_list[k]) = 0 \/ n <= Len(returns_list[k])

\* C16: when one asset of a risk calculation has no bar or a single bar and
\* another asset has a non-empty return series, the portfolio return series
\* is built from the non-empty series, with the least of their lengths, and
\* the result is not the fallback record.
C16_EmptySeriesSkipped ==
    (/\ RiskDone
     /\ lookups = Len(call.symbols)
     /\ \E k \in 1..Len(fetched) : fetched[k] \in {0, 1}
     /\ \E k \in 1..Len(fetched) : fetched[k] >= 2)
        => /\ portfolio_returns.ok
           /\ Len(portfolio_returns.v) = LeastNonEmpty
           /\ ~result.note

\* C17: every return series that reaches weighting and aggregation in a risk
\* calculation or in a simulation holds finite values only.
C17_FiniteReturnsOnly ==
    call.op \in {"risk", "mc"}
        => \A k \in 1..Len(returns_list) :
              \A j \in 1..Len(returns_list[k]) : IsFinite(returns_list[k][j])

\* C18: for a portfolio return series of one value or of equal values a risk
\* calculation reports volatility 0, historical VaR 0, parametric VaR 0 and
\* Sharpe ratio 0.
C18_ConstantSeriesDegenerate ==
    (/\ RiskDone
     /\ portfolio_returns.ok
     /\ portfolio_returns.v # <<>>
     /\ \A j \in 1..Len(portfolio_returns.v) :
           /\ IsFinite(portfolio_returns.v[j])
           /\ portfolio_returns.v[j] = portfolio_returns.v[1])
        => /\ outcome = "returned"
           /\ result.volatility = Q(Zero)
           /\ result.historical_var = Zero
           /\ result.parametric_var = Q(Zero)
           /\ result.sharpe_ratio = Q(Zero)

\* C19: a simulation whose portfolio return series is unavailable or has
\* fewer than 10 points draws its samples with the default parameters
\* mean 0.0008 and std 0.02.
C19_DefaultParametersWhenShort ==
    (/\ McDone
     /\ call.num_simulations >= 1
     /\ ~portfolio_returns.ok \/ Len(portfolio_returns.v) < 10)
        => result.portfolio_returns =
               [k \in 1..Len(result.portfolio_returns) |->
                   _simulate_portfolio_returns(DefaultParams, draws,
                                               call.time_horizon)[k]]

\* C20: for N >= 1 Sharpe proxies of any sign the max_sharpe policy gives N
\* weights, each greater than 0, that sum to 1.
C20_MaxSharpeWeightsPositive ==
    pc = "policy_done" =>
        /\ Len(opt.optimized_weights) = Len(opt.proxies)
        /\ \A j \in 1..Len(opt.optimized_weights) :
              RGt(opt.optimized_weights[j], Zero)
        /\ RSum(opt.optimized_weights) = One

C20_Witness ==
    /\ pc = "policy_done"
    /\ Len(opt.proxies) = 3
    /\ \E j \in 1..3 : RLt(opt.proxies[j], Rat(-1, 2))
    /\ \E j \in 1..3 : opt.proxies[j] = Rat(-1, 2)
    /\ \E j \in 1..3 : opt.proxies[j] = Zero
    /\ \E j, k \in 1..3 : opt.optimized_weights[j] # opt.optimized_weights[k]

PolicyDone == pc = "policy_done" /\ call.method = "max_sharpe"

\* the weighting mass of proxy j: the proxy, shifted by |min| + 0.1 when it is
\* negative
ShiftedMass(s, j) ==
    IF RLt(s[j], Zero) THEN RAdd(RAdd(s[j], RAbs(SeqMin(s))), Rat(1, 10)) ELSE s[j]

\* the shifted mass, raised to 0.01 when it is below
FlooredMass(s, j) == RMax(Rat(1, 100), ShiftedMass(s, j))

\* C21 as stated: the max_sharpe weights are a_i / sum a_j with a_i the
\* shifted proxy and no other adjustment, 1/N each when the sum is 0.
C21_ShiftOnlyWeights ==
    PolicyDone =>
        LET s == opt.proxies
            n == Len(s)
            total == RSum([j \in 1..n |-> ShiftedMass(s, j)])
        IN  \A j \in 1..n :
               opt.optimized_weights[j] =
                   IF total = Zero THEN Rat(1, n) ELSE RDiv(ShiftedMass(s, j), total)

\* C21 amended: the max_sharpe weights are a_i / sum a_j with
\* a_i = max(0.01, shifted proxy); the sum is at least 0.01 * N.
C21_FlooredShiftWeights ==
    PolicyDone =>
        LET s == opt.proxies
            n == Len(s)
            total == RSum([j \in 1..n |-> FlooredMass(s, j)])
        IN  /\ RGeq(total, Rat(n, 100))
            /\ Len(opt.optimized_weights) = n
            /\ \A j \in 1..n :
                  RMul(opt.optimized_weights[j], total) = FlooredMass(s, j)

C21_Witness ==
    /\ PolicyDone
    /\ \E j \in 1..Len(opt.proxies) : RLt(opt.proxies[j], Zero)
    /\ \E j \in 1..Len(opt.proxies) : opt.proxies[j] = Rat(1, 200)
    /\ \E j \in 1..Len(opt.proxies) : opt.proxies[j] = One

\* the weights of an optimize_portfolio call are computed
WeightsComputed(method) ==
    /\ call.op = "opt"
    /\ call.method = method
    /\ pc \in {"opt_metrics", "done"}
    /\ outcome # "raised"

\* the standard deviation of the daily returns of a symbol of the market, or
\* 0.02: "A" has the returns 1 and -1/2 in equal numbers, "D" the returns
\* -1/2 and 0, "F" the return 0; "B" has too few bars, "N" and "X" no data,
\* "Z" no finite return
DailyVolatility(symbol) ==
    CASE symbol = "A" -> Rat(3, 4)
      [] symbol = "D" -> Rat(1, 4)
      [] symbol = "F" -> Zero
      [] OTHER -> Rat(2, 100)

\* C22: the min_variance weights are (1/max(0.001, v_i)) / sum_j (1/max(0.001,
\* v_j)) with v_i the standard deviation of the asset's daily returns, or 0.02
\* without enough data; they are positive, sum to 1, and a lower volatility
\* never gets a smaller weight than a higher one.
C22_InverseVolatilityWeights ==
    WeightsComputed("min_variance") =>
        LET n == Len(call.symbols)
            v == [j \in 1..n |-> DailyVolatility(call.symbols[j])]
            inv == [j \in 1..n |-> RDiv(One, RMax(Rat(1, 1000), v[j]))]
            w == opt.optimized_weights
        IN  /\ opt.proxies = v
            /\ Len(w) = n
            /\ \A j \in 1..n : RMul(w[j], RSum(inv)) = inv[j]
            /\ \A j \in 1..n : RGt(w[j], Zero)
            /\ RSum(w) = One
            /\ \A j, k \in 1..n : RLt(v[j], v[k]) => RGeq(w[j], w[k])

C22_Witness ==
    /\ WeightsComputed("min_variance")
    /\ pc = "done"
    /\ \E j, k \in 1..Len(call.symbols) :
          /\ call.symbols[j] = "F"
          /\ call.symbols[k] \in {"B", "N", "X", "Z"}
          /\ RGt(opt.optimized_weights[j], opt.optimized_weights[k])

\* the lookups of a symbol of the market fail: no data, or the download raises
LookupFails(symbol) == symbol \in {"N", "X"}

\* mean / standard deviation of the daily returns of a symbol of the market,
\* or 0: "A" has the mean 1/4 and the deviation 3/4, "D" the mean -1/4 and
\* the deviation 1/4, "F" the deviation 0
DailySharpe(symbol) ==
    CASE symbol = "A" -> Rat(1, 3)
      [] symbol = "D" -> Rat(-1, 1)
      [] OTHER -> Zero

\* C23: when the lookups of some but not all assets of a max_sharpe or
\* min_variance call fail, the call returns its main record with a weight for
\* every asset, computed with proxy 0 or volatility 0.02 for the failed
\* assets and with the statistics of the data for the others.
C23_PartialFailureAbsorbed ==
    (/\ pc = "done"
     /\ call.op = "opt"
     /\ call.method \in {"max_sharpe", "min_variance"}
     /\ \E j \in 1..Len(call.symbols) : LookupFails(call.symbols[j])
     /\ \E j \in 1..Len(call.symbols) : ~LookupFails(call.symbols[j]))
        => /\ outcome = "returned"
           /\ result.kind = "opt"
           /\ ~result.note
           /\ result.method = call.method
           /\ DOMAIN result.optimized_weights =
                  {call.symbols[j] : j \in 1..Len(call.symbols)}
           /\ LET n == Len(call.symbols)
                  stat == [j \in 1..n |->
                      IF call.method = "max_sharpe"
                      THEN IF LookupFails(call.symbols[j]) THEN Zero
                           ELSE DailySharpe(call.symbols[j])
                      ELSE IF LookupFails(call.symbols[j]) THEN Rat(2, 100)
                           ELSE DailyVolatility(call.symbols[j])]
                  mass == [j \in 1..n |->
                      IF call.method = "max_sharpe" THEN FlooredMass(stat, j)
                      ELSE RDiv(One, RMax(Rat(1, 1000), stat[j]))]
              IN  \A j \in 1..n :
                     RMul(result.optimized_weights[call.symbols[j]], RSum(mass))
                         = mass[j]

C23_Witness ==
    /\ pc = "done"
    /\ call.op = "opt"
    /\ call.method = "max_sharpe"
    /\ call.symbols = <<"X", "D">>
    /\ result.kind = "opt"
    /\ result.optimized_weights["D"] = Rat(10, 11)

OptReturned == pc = "done" /\ call.op = "opt" /\ outcome = "returned"

\* C24: the current portfolio of optimize_portfolio, used for the metrics
\* before and for the weight changes, is 1/N per asset exactly when
\* current_weights is not supplied, and the supplied weights otherwise.
C24_CurrentWeightsAsSupplied ==
    OptReturned =>
        LET n == Len(call.symbols)
            current == IF call.current_weights.given THEN call.current_weights.v
                       ELSE [j \in 1..n |-> Rat(1, n)]
        IN  /\ opt.current_weights = current
            /\ \A j \in 1..n :
                  result.recommendations.weight_changes[j].current_weight =
                      RMul(opt.current_weights[j], Rat(100, 1))

\* C25: under max_sharpe an asset with a strictly higher Sharpe proxy never
\* gets a strictly smaller weight than an asset of the same request with a
\* lower proxy.
C25_WeightsMonotoneInProxy ==
    WeightsComputed("max_sharpe") =>
        \A j, k \in 1..Len(opt.proxies) :
            RGt(opt.proxies[j], opt.proxies[k])
                => RGeq(opt.optimized_weights[j], opt.optimized_weights[k])

\* C26: the performance improvement of an optimize_portfolio result is the
\* difference of the metrics reported in the same result; stated for the
\* first of its three fields: return_improvement = portfolio_metrics
\* .expected_return - current_portfolio_metrics.expected_return.
C26_ImprovementMatchesMetrics ==
    OptReturned =>
        LET improvement == result.recommendations.performance_improvement
        IN  RSub(improvement.optimized.expected_return,
                 improvement.current.expected_return)
                = RSub(result.portfolio_metrics.expected_return,
                       result.current_portfolio_metrics.expected_return)

\* C27: whenever the main computation of optimize_portfolio fails, the call
\* returns the default equal-weight record (method equal_weight, metrics
\* 0.08 / 0.15 / 0.4, a note) and does not raise, also for the empty asset
\* list.
C27_DefaultRecordOnFailure ==
    (pc = "done" /\ call.op = "opt" /\ OptimizationFails(call.symbols))
        => /\ outcome = "returned"
           /\ result = _get_default_optimization(call.symbols)

\* C28: for a request with two or more assets the top_increase insight and
\* the reduce insight of the recommendations never name the same asset;
\* stated for requests whose assets are distinct.
C28_IncreaseAndReduceDiffer ==
    (/\ OptReturned
     /\ Len(call.symbols) >= 2
     /\ \A j, k \in 1..Len(call.symbols) : j # k => call.symbols[j] # call.symbols[k])
        => result.recommendations.reduce # <<result.recommendations.top_increase>>

\* C29: for every non-empty return series and every confidence level the
\* tail {scaled returns <= percentile threshold} of the Expected Shortfall
\* is non-empty, so the branch ES = -threshold is never taken.
C29_TailNeverEmpty ==
    (RiskDone /\ portfolio_returns.ok /\ portfolio_returns.v # <<>>)
        => TailLosses(portfolio_returns.v, call.confidence_level,
                      call.time_horizon) # <<>>

====
